---------------------------- MODULE Spec2Model ----------------------------
(***************************************************************************)
(* A model of the build-matrix program build.go: the Config value, its     *)
(* output path (Config.OutputPath) with the FNV-1a fingerprint, the matrix *)
(* enumeration of main with its two feasibility filters, and the           *)
(* goroutine-per-build execution bounded by the buffered channel sem.      *)
(***************************************************************************)
EXTENDS Integers, Sequences, FiniteSets, TLC

(***************************************************************************)
(* Bounds of the model.                                                    *)
(***************************************************************************)
\* runtime.NumCPU() ranges over 1..MaxCPU
MaxCPU == 2
\* a run enumerates a window of MaxVersions consecutive entries of versions
MaxVersions == 2

(***************************************************************************)
(* Strings.  Go strings are TLA+ strings; a byte is a one-character        *)
(* string and Ord gives its value.                                         *)
(***************************************************************************)
\* the printable ASCII characters 32..95 and 97..126, in order
AsciiLow == " !\"#$%&'()*+,-./0123456789:;<=>?@ABCDEFGHIJKLMNOPQRSTUVWXYZ[\\]^_"

AsciiHigh == "abcdefghijklmnopqrstuvwxyz{|}~"

CharAt(s, i) == SubSeq(s, i, i)

Chars == {CharAt(AsciiLow, i) : i \in 1..Len(AsciiLow)}
         \cup {CharAt(AsciiHigh, i) : i \in 1..Len(AsciiHigh)} \cup {"\n"}

\* the byte value of each character (evaluated once)
OrdTable ==
    [ch \in Chars |->
        IF ch = "\n" THEN 10
        ELSE IF \E i \in 1..Len(AsciiLow) : CharAt(AsciiLow, i) = ch
             THEN 31 + CHOOSE i \in 1..Len(AsciiLow) : CharAt(AsciiLow, i) = ch
             ELSE 96 + CHOOSE i \in 1..Len(AsciiHigh) : CharAt(AsciiHigh, i) = ch]

Ord(ch) == OrdTable[ch]

HasSuffix(s, x) == Len(s) >= Len(x) /\ SubSeq(s, Len(s) - Len(x) + 1, Len(s)) = x

TrimSuffix(s, x) == IF HasSuffix(s, x) THEN SubSeq(s, 1, Len(s) - Len(x)) ELSE s

\* strings.Split(s, sep) for a one-byte separator: the pieces between separators
RECURSIVE SplitFrom(_, _, _, _)
SplitFrom(s, sep, i, cur) ==
    IF i > Len(s) THEN <<cur>>
    ELSE IF CharAt(s, i) = sep THEN <<cur>> \o SplitFrom(s, sep, i + 1, "")
    ELSE SplitFrom(s, sep, i + 1, cur \o CharAt(s, i))

Split(s, sep) == SplitFrom(s, sep, 1, "")

\* bytes.Fields: the maximal runs of non-space bytes
IsSpace(ch) == ch \in {" ", "\n", "\t", "\r"}

RECURSIVE FieldsFrom(_, _, _)
FieldsFrom(s, i, cur) ==
    IF i > Len(s) THEN (IF cur = "" THEN <<>> ELSE <<cur>>)
    ELSE IF IsSpace(CharAt(s, i))
         THEN (IF cur = "" THEN <<>> ELSE <<cur>>) \o FieldsFrom(s, i + 1, "")
    ELSE FieldsFrom(s, i + 1, cur \o CharAt(s, i))

Fields(s) == FieldsFrom(s, 1, "")

\* strconv.Atoi: an optional sign followed by one or more decimal digits
Digits == "0123456789"

IsDigit(ch) == \E d \in 1..10 : CharAt(Digits, d) = ch

DigitVal(ch) == (CHOOSE d \in 1..10 : CharAt(Digits, d) = ch) - 1

RECURSIVE DigitsVal(_, _, _)
DigitsVal(s, i, acc) ==
    IF i > Len(s) THEN acc ELSE DigitsVal(s, i + 1, (acc * 10) + DigitVal(CharAt(s, i)))

Atoi(s) ==
    LET signed == Len(s) > 0 /\ CharAt(s, 1) \in {"+", "-"}
        body   == IF signed THEN SubSeq(s, 2, Len(s)) ELSE s
        ok     == Len(body) > 0 /\ \A i \in 1..Len(body) : IsDigit(CharAt(body, i))
        mag    == IF ok THEN DigitsVal(body, 1, 0) ELSE 0
    IN  [err |-> ~ok,
         val |-> IF signed /\ CharAt(s, 1) = "-" THEN 0 - mag ELSE mag]

(***************************************************************************)
(* hash/fnv New32a and encoding/hex.  A 32-bit word is kept as two 16-bit  *)
(* halves so that the multiplication modulo 2^32 is exact.                 *)
(***************************************************************************)
RECURSIVE Xor(_, _, _)
Xor(a, b, bits) ==
    IF bits = 0 THEN 0
    ELSE (((a % 2) + (b % 2)) % 2) + 2 * Xor(a \div 2, b \div 2, bits - 1)

\* offset32 = 2166136261 = 0x811c9dc5
FnvOffset == [hi |-> 33052, lo |-> 40389]

\* one step of sum32a.Write: hash ^= byte; hash *= prime32 (16777619 = 0x01000193)
FnvStep(h, byte) ==
    LET lo    == (h.lo - (h.lo % 256)) + Xor(h.lo % 256, byte, 8)
        prod  == lo * 403
    IN  [lo |-> prod % 65536,
         hi |-> ((h.hi * 403) + (lo * 256) + (prod \div 65536)) % 65536]

\* sum32a.Write: the step applied to bytes lo..hi of s in order (the range is
\* halved so that the evaluation depth stays logarithmic in the length)
RECURSIVE FnvWrite(_, _, _, _)
FnvWrite(h, s, lo, hi) ==
    IF lo > hi \/ h.lo < 0 THEN h   \* (the test on h.lo only forces its value)
    ELSE IF lo = hi THEN FnvStep(h, Ord(CharAt(s, lo)))
    ELSE LET mid == (lo + hi) \div 2
         IN  FnvWrite(FnvWrite(h, s, lo, mid), s, mid + 1, hi)

Fnv32a(s) == FnvWrite(FnvOffset, s, 1, Len(s))

HexDigits == "0123456789abcdef"

HexByte(b) == CharAt(HexDigits, (b \div 16) + 1) \o CharAt(HexDigits, (b % 16) + 1)

\* hex.EncodeToString(h.Sum(nil)): the four bytes of the sum, big-endian
HexSum(h) == HexByte(h.hi \div 256) \o HexByte(h.hi % 256)
             \o HexByte(h.lo \div 256) \o HexByte(h.lo % 256)

(***************************************************************************)
(* The program's literals.                                                 *)
(***************************************************************************)
\* var versions
versions == <<"go1.10.8", "go1.11.13", "go1.12.17", "go1.13.8", "go1.14">>

\* const out
out == "dist"

\* the range expressions of the four inner loops of main
Platforms == <<"linux", "darwin", "windows">>

TrimPaths == <<FALSE, TRUE>>

LinkModes == <<"internal", "external">>

Strips == <<FALSE, TRUE>>

\* name := "hello"
ArtifactName == "hello"

(***************************************************************************)
(* time.Time, kept as its RFC 3339 text (what Time.MarshalJSON writes).    *)
(***************************************************************************)
\* time.Time{}
ZeroTime == "0001-01-01T00:00:00Z"

\* values time.Now() may return
Now == "2020-03-01T09:30:00.5Z"

Later == "2020-03-02T18:45:10.25+01:00"

BuildTimes == {Now, Later}

(***************************************************************************)
(* type Config and encoding/json.                                          *)
(***************************************************************************)
Config(name, goVersion, goos, linkMode, strip, trimPath, time) ==
    [Name |-> name, GoVersion |-> goVersion, GOOS |-> goos, LinkMode |-> linkMode,
     StripDebug |-> strip, TrimPath |-> trimPath, BuildTime |-> time]

\* a JSON string (none of the strings of a Config needs escaping)
JsonString(s) == "\"" \o s \o "\""

JsonBool(b) == IF b THEN "true" ELSE "false"

\* json.Marshal of a Config: the exported fields in declaration order
Marshal(c) ==
    "{\"Name\":" \o JsonString(c.Name)
    \o ",\"GoVersion\":" \o JsonString(c.GoVersion)
    \o ",\"GOOS\":" \o JsonString(c.GOOS)
    \o ",\"LinkMode\":" \o JsonString(c.LinkMode)
    \o ",\"StripDebug\":" \o JsonBool(c.StripDebug)
    \o ",\"TrimPath\":" \o JsonBool(c.TrimPath)
    \o ",\"BuildTime\":" \o JsonString(c.BuildTime) \o "}"

(***************************************************************************)
(* Config.OutputPath and upx's output name.                                *)
(***************************************************************************)
\* Snapshot with a fault: the build time is left in the snapshot
SnapshotKeepsTime(c) == c

\* snapshot := *c; snapshot.BuildTime = time.Time{}
Snapshot(c) == [c EXCEPT !.BuildTime = ZeroTime]

\* the hash appended to the name: FNV-1a of the JSON of the snapshot, in hex
Fingerprint(c) == HexSum(Fnv32a(Marshal(Snapshot(c))))

\* FileName with a fault: only the name, the toolchain and the target are used
FileNameWithoutFlags(c) ==
    LET base == c.Name \o "-" \o c.GoVersion \o "-" \o c.GOOS
    IN  IF c.GOOS = "windows" THEN base \o ".exe" ELSE base

\* FileName with a fault: "-trimpath" is appended before "-strip"
FileNameTrimPathFirst(c) ==
    LET base  == c.Name \o "-" \o c.GoVersion \o "-" \o c.GOOS \o "-"
                 \o SubSeq(c.LinkMode, 1, 3) \o "lnk"
        trim  == IF c.TrimPath THEN base \o "-trimpath" ELSE base
        strip == IF c.StripDebug THEN trim \o "-strip" ELSE trim
        hash  == strip \o "-" \o Fingerprint(c)
    IN  IF c.GOOS = "windows" THEN hash \o ".exe" ELSE hash

\* the file name OutputPath builds before joining it to the output directory
FileName(c) ==
    LET base  == c.Name \o "-" \o c.GoVersion \o "-" \o c.GOOS \o "-"
                 \o SubSeq(c.LinkMode, 1, 3) \o "lnk"
        strip == IF c.StripDebug THEN base \o "-strip" ELSE base
        trim  == IF c.TrimPath THEN strip \o "-trimpath" ELSE strip
        hash  == trim \o "-" \o Fingerprint(c)
    IN  IF c.GOOS = "windows" THEN hash \o ".exe" ELSE hash

\* a version no executable of the run is named after
OtherVersion == "go1.9.7"

\* the versions a toolchain of a run can report
Versions == {versions[i] : i \in 1..Len(versions)} \cup {OtherVersion}

\* every Config a run can build from a reported version, at every build time
ConfigSpace ==
    {Config(ArtifactName, v, Platforms[g], LinkModes[l], Strips[s], TrimPaths[t], b) :
        v \in Versions, g \in 1..Len(Platforms), l \in 1..Len(LinkModes),
        s \in 1..Len(Strips), t \in 1..Len(TrimPaths), b \in BuildTimes \cup {ZeroTime}}

\* FileName tabulated over ConfigSpace (evaluated once)
FileNames == [c \in ConfigSpace |-> FileName(c)]

\* filepath.Join(dir, name) on a host: the host's separator between the two
Join(host, dir, name) == dir \o (IF host = "windows" THEN "\\" ELSE "/") \o name

\* func (c *Config) OutputPath() string, in a program running on host
OutputPath(host, c) == Join(host, out, FileNames[c])

\* UpxPath with a fault: upx writes over the executable it reads
UpxPathInPlace(exe) == exe

\* the -o argument of func upx(exe string)
UpxPath(exe) ==
    LET trimmed == TrimSuffix(exe, ".exe") \o "-upx"
    IN  IF HasSuffix(exe, ".exe") THEN trimmed \o ".exe" ELSE trimmed

(***************************************************************************)
(* Config.Cmd and the command of upx.                                      *)
(***************************************************************************)
\* AfterOutputPath with a fault: snapshot is the receiver itself, not a copy
AfterOutputPathZeroed(c) == [c EXCEPT !.BuildTime = ZeroTime]

\* the receiver after c.OutputPath(): snapshot := *c is a copy, and only the
\* copy's BuildTime is assigned
AfterOutputPath(c) == c

\* json.MarshalIndent(c, "", "  ")
MarshalIndent(c) ==
    "{\n  \"Name\": " \o JsonString(c.Name)
    \o ",\n  \"GoVersion\": " \o JsonString(c.GoVersion)
    \o ",\n  \"GOOS\": " \o JsonString(c.GOOS)
    \o ",\n  \"LinkMode\": " \o JsonString(c.LinkMode)
    \o ",\n  \"StripDebug\": " \o JsonBool(c.StripDebug)
    \o ",\n  \"TrimPath\": " \o JsonBool(c.TrimPath)
    \o ",\n  \"BuildTime\": " \o JsonString(c.BuildTime) \o "\n}"

\* the -ldflags argument of Cmd
LdFlags(c) ==
    LET flags == "-X 'main.info=" \o MarshalIndent(c) \o "' -linkmode=" \o c.LinkMode
    IN  IF c.StripDebug THEN flags \o " -s -w" ELSE flags

\* Cmd with a fault: "-trimpath" is appended for every Config
CmdTrimPathAlways(host, c) ==
    [path |-> c.GoVersion,
     args |-> <<"build", "-o", OutputPath(host, c), "-ldflags", LdFlags(c)>>
              \o <<"-trimpath">> \o <<"main.go">>,
     env  |-> <<"GOOS=" \o c.GOOS>>]

\* func (c *Config) Cmd() *exec.Cmd, in a program running on host: the executable,
\* its arguments, and what is appended to os.Environ()
Cmd(host, c) ==
    [path |-> c.GoVersion,
     args |-> <<"build", "-o", OutputPath(host, c), "-ldflags", LdFlags(c)>>
              \o (IF c.TrimPath THEN <<"-trimpath">> ELSE <<>>) \o <<"main.go">>,
     env  |-> <<"GOOS=" \o c.GOOS>>]

\* the command of func upx(exe string): mustRun("upx", "-qq", "-f", "-o", out, exe)
UpxCmd(exe) ==
    [path |-> "upx", args |-> <<"-qq", "-f", "-o", UpxPath(exe), exe>>, env |-> <<>>]

(***************************************************************************)
(* The toolchains: what running "<exe> version" gives.                     *)
(***************************************************************************)
\* the output of a toolchain that reports version v
VersionOutput(v, host) ==
    [err |-> FALSE, out |-> "go version " \o v \o " " \o host \o "/amd64\n"]

\* an executable that cannot be run
NoToolchain == [err |-> TRUE, out |-> ""]

\* values of runtime.GOOS: two of the targets and a host that is no target
Hosts == {"linux", "windows", "freebsd"}

\* a toolchain that reports another version than its name says
Misreport(host) == VersionOutput(OtherVersion, host)

\* the outputs a run can meet
Outputs == {VersionOutput(v, h) : v \in Versions, h \in Hosts} \cup {NoToolchain}

\* func goVersion(exe string) string; panic is set where the function panics
GoVersion(output) ==
    LET fields == Fields(output.out)
    IN  IF output.err \/ Len(fields) < 3
        THEN [panic |-> TRUE, version |-> ""]
        ELSE [panic |-> FALSE, version |-> fields[3]]

\* strconv.Atoi(strings.Split(version, ".")[1]); err also where the index panics
Minor(version) ==
    LET parts == Split(version, ".")
    IN  IF Len(parts) < 2 THEN [err |-> TRUE, val |-> 0] ELSE Atoi(parts[2])

\* GoVersion and Minor tabulated (evaluated once)
GoVersions == [o \in Outputs |-> GoVersion(o)]

Minors == [v \in Versions \cup {""} |-> Minor(v)]

\* Cmd tabulated over the hosts and ConfigSpace (evaluated once)
Cmds == [h \in Hosts |-> [c \in ConfigSpace |-> Cmd(h, c)]]

(***************************************************************************)
(* The matrix of main.                                                     *)
(***************************************************************************)
Min(a, b) == IF a < b THEN a ELSE b

Max(a, b) == IF a > b THEN a ELSE b

\* the last toolchain of versions that has no -trimpath
LastOld == CHOOSE i \in 1..Len(versions) :
               /\ Minors[versions[i]].val < 13
               /\ \A j \in (i + 1)..Len(versions) : Minors[versions[j]].val >= 13

\* the toolchains a run enumerates: MaxVersions consecutive entries of versions
\* that end at the first toolchain with -trimpath (or later ones, once the
\* window reaches the head of the list)
RunVersions ==
    LET lo == Max(1, LastOld + 2 - MaxVersions)
        hi == Min(Len(versions), lo + MaxVersions - 1)
    IN  SubSeq(versions, lo, hi)

\* TrimPathFilter with a fault: the threshold is one release too low
TrimPathFilterFrom12(trimpath, v) == trimpath /\ v < 12

\* if trimpath && v < 13 { continue }
TrimPathFilter(trimpath, v) == trimpath /\ v < 13

\* CrossLinkFilter with a fault: the comparison is inverted
CrossLinkFilterInverted(linkmode, host, goos) == linkmode = "external" /\ host = goos

\* if linkmode == "external" && runtime.GOOS != GOOS { continue }
CrossLinkFilter(linkmode, host, goos) == linkmode = "external" /\ host # goos

\* the position of the five nested loops: one index per loop, outermost first
FirstIter == <<1, 1, 1, 1, 1>>

\* the lengths of the five ranges
Ranges == <<Len(RunVersions), Len(Platforms), Len(TrimPaths), Len(LinkModes), Len(Strips)>>

\* the next position: the innermost loop advances first; past the end of the
\* outermost range the first index is Len(RunVersions) + 1
RECURSIVE AdvanceAt(_, _)
AdvanceAt(it, k) ==
    IF k = 1 \/ it[k] < Ranges[k] THEN [it EXCEPT ![k] = it[k] + 1]
    ELSE AdvanceAt([it EXCEPT ![k] = 1], k - 1)

\* Advance with a fault: the innermost loop is left after its first value
AdvanceSkipsStrip(it) == AdvanceAt(it, 4)

Advance(it) == AdvanceAt(it, 5)

LoopDone(it) == it[1] > Len(RunVersions)
(***************************************************************************)
(* The state of a run of main.                                             *)
(***************************************************************************)
VARIABLES
    hostOS,     \* runtime.GOOS
    ncpu,       \* runtime.NumCPU(), the capacity of sem
    hasUPX,     \* hasUPX: the result of running "upx -V"
    buildTime,  \* buildTime := time.Now()
    toolchain,  \* for each executable of the run, what "<exe> version" gives
    mainPC,     \* where main is: "install", "loop", "drain", "done"
    iter,       \* the position of the nested loops
    drain,      \* n of the final loop: the sends still to make
    sem,        \* the number of elements in the channel sem
    tasks,      \* the variable cfg of every goroutine started, in the order of the starts
    goroutines, \* the goroutines that have not ended: [task, pc, out, cmd]
    dist,       \* the files written under out: [path, tool, by]
    aborted,    \* the process has died of a panic
    call,       \* a call of Config.OutputPath outside a run: its receivers and results
    hung        \* the task whose compiler never exits; 0 when every compiler exits

vars == <<hostOS, ncpu, hasUPX, buildTime, toolchain, mainPC, iter, drain, sem,
          tasks, goroutines, dist, aborted, call, hung>>

env == <<hostOS, ncpu, hasUPX, buildTime, call, hung>>

NoCall == [a |-> <<>>, b |-> <<>>, pa |-> <<>>, pb |-> <<>>]

\* all toolchains installed and consistent
GoodToolchain(host) == [i \in 1..Len(RunVersions) |-> VersionOutput(RunVersions[i], host)]

\* at most one toolchain is missing or inconsistent when main starts
Toolchains(host) ==
    {GoodToolchain(host)}
    \cup {[GoodToolchain(host) EXCEPT ![i] = bad] :
             i \in 1..Len(RunVersions), bad \in {NoToolchain, Misreport(host)}}

\* Running with a fault: a panic does not end the process
RunningAfterPanic == mainPC # "done"

\* the process is running: it has neither died of a panic nor returned from main
Running == ~aborted /\ mainPC # "done"

Init ==
    /\ hostOS \in Hosts
    /\ ncpu \in 1..MaxCPU
    /\ hasUPX \in BOOLEAN
    /\ buildTime = Now
    /\ toolchain \in Toolchains(hostOS)
    /\ mainPC = "install"
    /\ iter = FirstIter
    /\ drain = 0
    /\ sem = 0
    /\ tasks = <<>>
    /\ goroutines = {}
    /\ dist = {}
    /\ aborted = FALSE
    /\ call = NoCall
    /\ hung = 0

(***************************************************************************)
(* installMissingToolchains(versions)                                      *)
(***************************************************************************)
\* installed != version, where a panic of goVersion is recovered as ""
Missing(i) ==
    LET gv == GoVersions[toolchain[i]]
    IN  (IF gv.panic THEN "" ELSE gv.version) # RunVersions[i]

\* every missing toolchain is installed by two mustRun calls: either one of them
\* fails and panics, or the executable now runs and reports its own version or,
\* where an inconsistent executable of that name stays first in the path, that one's
InstallMissingToolchains ==
    /\ Running /\ mainPC = "install"
    /\ \/ /\ \E i \in 1..Len(RunVersions) : Missing(i)
          /\ aborted' = TRUE
          /\ UNCHANGED <<toolchain, mainPC>>
       \/ /\ \E after \in Toolchains(hostOS) :
                /\ \A i \in 1..Len(RunVersions) :
                      IF Missing(i)
                      THEN /\ ~after[i].err
                           /\ toolchain[i].err => after[i] = GoodToolchain(hostOS)[i]
                      ELSE after[i] = toolchain[i]
                /\ toolchain' = after
          /\ mainPC' = "loop"
          /\ UNCHANGED aborted
    /\ UNCHANGED <<env, iter, drain, sem, tasks, goroutines, dist>>

(***************************************************************************)
(* The channel sem := make(chan struct{}, runtime.NumCPU()).               *)
(***************************************************************************)
\* CanSend with a fault: one element more than the capacity is accepted
CanSendBeyondCapacity(n, capacity) == n <= capacity

\* sem <- struct{}{} goes through when the buffer has room, and blocks otherwise
CanSend(n, capacity) == n < capacity

\* DrainCount with a fault: the final loop makes one send too few
DrainCountShort(capacity) == capacity - 1

\* n := cap(sem) of the final loop
DrainCount(capacity) == capacity

(***************************************************************************)
(* The nested loops of main.                                               *)
(***************************************************************************)
\* ConfigAt with a fault: the loop over linkmode is outside the loop over trimpath
ConfigAtLinkModeOutside(it, version) ==
    Config(ArtifactName, version, Platforms[it[2]], LinkModes[it[3]], Strips[it[5]],
           TrimPaths[it[4]], buildTime)

\* the Config the loop body builds at position it from the reported version
ConfigAt(it, version) ==
    Config(ArtifactName, version, Platforms[it[2]], LinkModes[it[4]], Strips[it[5]],
           TrimPaths[it[3]], buildTime)

\* Body with a fault: the reported version is not compared with the executable's name
BodyWithoutVersionCheck(it) ==
    LET gv  == GoVersions[toolchain[it[1]]]
        v   == Minors[gv.version]
        cfg == ConfigAt(it, gv.version)
    IN  IF gv.panic \/ v.err
        THEN [kind |-> "panic", cfg |-> cfg]
        ELSE IF \/ TrimPathFilter(cfg.TrimPath, v.val)
                \/ CrossLinkFilter(cfg.LinkMode, hostOS, cfg.GOOS)
        THEN [kind |-> "continue", cfg |-> cfg]
        ELSE [kind |-> "build", cfg |-> cfg]

\* one pass through the body of the innermost loop, up to the send on sem:
\* a panic, a continue, or a Config to build
Body(it) ==
    LET exe == RunVersions[it[1]]
        gv  == GoVersions[toolchain[it[1]]]
        v   == Minors[gv.version]
        cfg == ConfigAt(it, gv.version)
    IN  IF gv.panic \/ gv.version # exe \/ v.err
        THEN [kind |-> "panic", cfg |-> cfg]
        ELSE IF \/ TrimPathFilter(cfg.TrimPath, v.val)
                \/ CrossLinkFilter(cfg.LinkMode, hostOS, cfg.GOOS)
        THEN [kind |-> "continue", cfg |-> cfg]
        ELSE [kind |-> "build", cfg |-> cfg]

\* the loops go on to the next position, or end and the final loop begins
NextIteration ==
    /\ iter' = Advance(iter)
    /\ IF LoopDone(Advance(iter))
       THEN mainPC' = "drain" /\ drain' = DrainCount(ncpu)
       ELSE UNCHANGED <<mainPC, drain>>

\* goVersion panics, the version is not the executable's name, or it does not parse
LoopPanic ==
    /\ Running /\ mainPC = "loop"
    /\ Body(iter).kind = "panic"
    /\ aborted' = TRUE
    /\ UNCHANGED <<env, toolchain, mainPC, iter, drain, sem, tasks, goroutines, dist>>

\* one of the two filters applies: continue
LoopContinue ==
    /\ Running /\ mainPC = "loop"
    /\ Body(iter).kind = "continue"
    /\ NextIteration
    /\ UNCHANGED <<env, toolchain, sem, tasks, goroutines, dist, aborted>>

\* the goroutine of the task-th go statement as it is started: it prints
\* cfg.OutputPath() and mustRunCmd starts the compiler built by cfg.Cmd(), whose
\* -o argument is that path
Spawn(task, cfg) ==
    [task |-> task, pc |-> "compiling", out |-> OutputPath(hostOS, cfg),
     cmd |-> Cmds[hostOS][AfterOutputPath(cfg)]]

\* sem <- struct{}{} (blocks while sem is full); go func() { ... }()
LoopAdmit ==
    /\ Running /\ mainPC = "loop"
    /\ CanSend(sem, ncpu)
    /\ LET body == Body(iter)
       IN  /\ body.kind = "build"
           /\ tasks' = Append(tasks, AfterOutputPath(AfterOutputPath(body.cfg)))
           /\ goroutines' = goroutines \cup {Spawn(Len(tasks) + 1, body.cfg)}
    /\ sem' = sem + 1
    /\ NextIteration
    /\ UNCHANGED <<env, toolchain, dist, aborted>>

\* Drain with a fault: after the last send main does not return
DrainWithoutReturn ==
    /\ Running /\ mainPC = "drain"
    /\ drain > 0
    /\ CanSend(sem, ncpu)
    /\ sem' = sem + 1
    /\ drain' = drain - 1
    /\ UNCHANGED <<env, toolchain, mainPC, iter, tasks, goroutines, dist, aborted>>

\* for n := cap(sem); n > 0; n-- { sem <- struct{}{} }, then main returns
Drain ==
    /\ Running /\ mainPC = "drain"
    /\ IF drain > 0
       THEN /\ CanSend(sem, ncpu)
            /\ sem' = sem + 1
            /\ drain' = drain - 1
            /\ UNCHANGED mainPC
       ELSE /\ mainPC' = "done"
            /\ UNCHANGED <<sem, drain>>
    /\ UNCHANGED <<env, toolchain, iter, tasks, goroutines, dist, aborted>>

(***************************************************************************)
(* The goroutine of one build: an element g of goroutines.                 *)
(***************************************************************************)
\* Release with a fault: the goroutine ends without receiving from sem
ReleaseWithoutReceive(g) ==
    /\ sem' = sem
    /\ goroutines' = goroutines \ {g}

\* <-sem, the last statement of the goroutine, which then ends
Release(g) ==
    /\ sem' = sem - 1
    /\ goroutines' = goroutines \ {g}

\* Panic with a fault: the error ends the goroutine alone, which gives its slot back
PanicIsolated(g, pc) ==
    /\ goroutines' = (goroutines \ {g}) \cup {[g EXCEPT !.pc = pc]}
    /\ sem' = sem - 1
    /\ UNCHANGED aborted

\* mustRunCmd on an error: it prints the command and its output and panics; the
\* panic of a goroutine ends the process, and <-sem is never reached
Panic(g, pc) ==
    /\ goroutines' = (goroutines \ {g}) \cup {[g EXCEPT !.pc = pc]}
    /\ aborted' = TRUE
    /\ UNCHANGED sem

\* CompilerSucceeds with a fault: upx is started whatever "upx -V" gave
CompilerSucceedsUpxUnprobed ==
    /\ Running
    /\ \E g \in goroutines :
          /\ g.pc = "compiling"
          /\ dist' = dist \cup {[path |-> g.out, tool |-> "go", by |-> g.task]}
          /\ goroutines' =
                (goroutines \ {g})
                \cup {[task |-> g.task, pc |-> "compressing",
                       out |-> UpxPath(OutputPath(hostOS, tasks[g.task])),
                       cmd |-> UpxCmd(OutputPath(hostOS, tasks[g.task]))]}
          /\ tasks' = [tasks EXCEPT ![g.task] = AfterOutputPath(@)]
          /\ UNCHANGED sem
    /\ UNCHANGED <<env, toolchain, mainPC, iter, drain, aborted>>

\* the compiler exits with status 0 and has written its output; then
\* upx(cfg.OutputPath()) starts upx on it if hasUPX, and otherwise the goroutine ends
CompilerSucceeds ==
    /\ Running
    /\ \E g \in goroutines :
          /\ g.pc = "compiling"
          /\ dist' = dist \cup {[path |-> g.out, tool |-> "go", by |-> g.task]}
          /\ IF hasUPX
             THEN /\ goroutines' =
                        (goroutines \ {g})
                        \cup {[task |-> g.task, pc |-> "compressing",
                               out |-> UpxPath(OutputPath(hostOS, tasks[g.task])),
                               cmd |-> UpxCmd(OutputPath(hostOS, tasks[g.task]))]}
                  /\ tasks' = [tasks EXCEPT ![g.task] = AfterOutputPath(@)]
                  /\ UNCHANGED sem
             ELSE Release(g) /\ UNCHANGED tasks
    /\ UNCHANGED <<env, toolchain, mainPC, iter, drain, aborted>>

\* the compiler exits with another status
CompilerFails ==
    /\ Running
    /\ \E g \in goroutines :
          /\ g.pc = "compiling"
          /\ Panic(g, "buildFailed")
    /\ UNCHANGED <<env, toolchain, mainPC, iter, drain, tasks, dist>>

\* upx exits with status 0 and has written its output; the goroutine ends
UpxSucceeds ==
    /\ Running
    /\ \E g \in goroutines :
          /\ g.pc = "compressing"
          /\ dist' = dist \cup {[path |-> g.out, tool |-> "upx", by |-> g.task]}
          /\ Release(g)
    /\ UNCHANGED <<env, toolchain, mainPC, iter, drain, tasks, aborted>>

\* upx exits with another status
UpxFails ==
    /\ Running
    /\ \E g \in goroutines :
          /\ g.pc = "compressing"
          /\ Panic(g, "upxFailed")
    /\ UNCHANGED <<env, toolchain, mainPC, iter, drain, tasks, dist>>

Next ==
    \/ InstallMissingToolchains
    \/ LoopPanic
    \/ LoopContinue
    \/ LoopAdmit
    \/ Drain
    \/ CompilerSucceeds
    \/ CompilerFails
    \/ UpxSucceeds
    \/ UpxFails

Spec == Init /\ [][Next]_vars

\* a run in which every external process started exits and every goroutine that
\* can run is run: a step is taken whenever one is possible
FairHost == "freebsd"

FairInit == Init /\ hostOS = FairHost

SpecFair == FairInit /\ [][Next]_vars /\ WF_vars(Next)

(***************************************************************************)
(* A run in which one compiler never exits.  cfg.Cmd() builds the command  *)
(* with exec.Command, without a context, and mustRunCmd waits for it in    *)
(* CombinedOutput: nothing ends the wait but the exit of the process.      *)
(***************************************************************************)
\* NeverExits with a fault: the compiler runs under a timeout, as the commands of
\* mustRun do, and so it always exits
NeverExitsUnderTimeout(g) == FALSE

\* the process of goroutine g is the compiler that never exits
NeverExits(g) == g.task = hung /\ g.pc = "compiling"

\* the compiler that never exits is that of one of the first MaxHung tasks
MaxHung == 3

HangInit ==
    /\ hostOS = FairHost
    /\ ncpu \in 1..MaxCPU
    /\ hasUPX \in BOOLEAN
    /\ buildTime = Now
    /\ toolchain \in Toolchains(hostOS)
    /\ mainPC = "install"
    /\ iter = FirstIter
    /\ drain = 0
    /\ sem = 0
    /\ tasks = <<>>
    /\ goroutines = {}
    /\ dist = {}
    /\ aborted = FALSE
    /\ call = NoCall
    /\ hung \in 1..MaxHung

\* the step is not the exit of the compiler that never exits
StillRuns == \A g \in goroutines : NeverExits(g) => g \in goroutines'

\* the steps of Next, where the compilers that exit are the others
HangNext ==
    \/ InstallMissingToolchains
    \/ LoopPanic
    \/ LoopContinue
    \/ LoopAdmit
    \/ Drain
    \/ CompilerSucceeds /\ StillRuns
    \/ CompilerFails /\ StillRuns
    \/ UpxSucceeds
    \/ UpxFails

\* every other external process exits and every goroutine that can run is run
SpecHang == HangInit /\ [][HangNext]_vars /\ WF_vars(HangNext)

(***************************************************************************)
(* Calls of Config.OutputPath outside a run, on Configs of two build times.*)
(***************************************************************************)
\* the Configs of the runs at the build times of BuildTimes and at the zero time
PathConfigs ==
    {c \in ConfigSpace : \E i \in 1..Len(RunVersions) : c.GoVersion = RunVersions[i]}

\* the fields in which two Configs differ
Differences(a, b) == {f \in DOMAIN a : a[f] # b[f]}

\* two receivers that differ in at most one field
Calls ==
    UNION {{[a |-> c, b |-> d, pa |-> <<>>, pb |-> <<>>] :
               d \in {e \in PathConfigs : Cardinality(Differences(c, e)) <= 1}} :
           c \in PathConfigs}

PathInit ==
    /\ hostOS \in Hosts
    /\ ncpu = 1
    /\ hasUPX = FALSE
    /\ buildTime = Now
    /\ toolchain = GoodToolchain(hostOS)
    /\ mainPC = "install"
    /\ iter = FirstIter
    /\ drain = 0
    /\ sem = 0
    /\ tasks = <<>>
    /\ goroutines = {}
    /\ dist = {}
    /\ aborted = FALSE
    /\ call \in Calls
    /\ hung = 0

run == <<hostOS, ncpu, hasUPX, buildTime, toolchain, mainPC, iter, drain, sem,
         tasks, goroutines, dist, aborted, hung>>

\* c.OutputPath() on the first receiver, at most twice
CallOutputPathA ==
    /\ Len(call.pa) < 2
    /\ call' = [call EXCEPT !.pa = Append(@, OutputPath(hostOS, call.a)),
                            !.a = AfterOutputPath(@)]
    /\ UNCHANGED run

\* c.OutputPath() on the second receiver
CallOutputPathB ==
    /\ Len(call.pb) < 1
    /\ call' = [call EXCEPT !.pb = Append(@, OutputPath(hostOS, call.b)),
                            !.b = AfterOutputPath(@)]
    /\ UNCHANGED run

PathNext == CallOutputPathA \/ CallOutputPathB

SpecPath == PathInit /\ [][PathNext]_vars

(***************************************************************************)
(* Properties.                                                             *)
(***************************************************************************)
\* the tasks that hold a slot of sem: their goroutine has not executed <-sem
Held == {g.task : g \in goroutines}

\* the tasks whose compiler or compressor is running
InProcess == {g.task : g \in {h \in goroutines : h.pc \in {"compiling", "compressing"}}}

\* the tasks whose compiler or compressor exited with a non-zero status
Failed == {g.task : g \in {h \in goroutines : h.pc \in {"buildFailed", "upxFailed"}}}

\* the sends the final loop has made
DrainSent == IF mainPC \in {"drain", "done"} THEN ncpu - drain ELSE 0

\* the minor version number of a toolchain of the run
MinorNumber(version) == Minors[version].val

\* C1: with a gate of capacity ncpu, the tasks that were admitted and have not
\* released their slot are never more than ncpu; the compiler and the compressor
\* of a task both run while its slot is held: every task with one of them running
\* is among the holders, and every holder has an element in sem.
C1_AdmissionBound ==
    /\ Cardinality(Held) <= ncpu
    /\ InProcess \subseteq Held
    /\ Cardinality(Held) <= sem
    /\ sem <= ncpu

C1_Witness ==
    /\ ncpu >= 2
    /\ Cardinality(Held) = ncpu
    /\ mainPC = "loop" /\ Body(iter).kind = "build"
    /\ \E g, h \in goroutines : g.pc = "compiling" /\ h.pc = "compressing"

\* C2: main returns only when every task ever admitted has released its slot,
\* its compiler and, if enabled, its compressor having finished and written their
\* files; while a task is running the final loop still has at least as many sends
\* to make as there are tasks holding a slot.
C2_DrainBarrier ==
    /\ mainPC = "done" =>
          /\ Held = {}
          /\ \A i \in 1..Len(tasks) :
                LET exe == OutputPath(hostOS, tasks[i])
                IN  /\ [path |-> exe, tool |-> "go", by |-> i] \in dist
                    /\ hasUPX => [path |-> UpxPath(exe), tool |-> "upx", by |-> i] \in dist
    /\ mainPC = "drain" => Cardinality(Held) <= drain

C2_Witness ==
    /\ mainPC = "done"
    /\ ncpu >= 2 /\ hasUPX
    /\ Len(tasks) > ncpu

C5_ReleasedOnEveryPath ==
    /\ Failed \cap Held = {}
    /\ sem = Cardinality(InProcess) + DrainSent

\* C5, amended: a task that acquired a slot has released it exactly when it has
\* completed successfully: the elements of sem are those of the tasks still in
\* process, those of the failed tasks and the sends of the final loop; a task whose
\* compiler or compressor failed still holds its slot, and the run is aborted, so
\* that main never takes the matrix for drained.
C5_ReleasedOnSuccess ==
    /\ Held = InProcess \cup Failed
    /\ sem = Cardinality(InProcess) + Cardinality(Failed) + DrainSent
    /\ Failed # {} => aborted /\ mainPC # "done"

C5_Witness ==
    /\ aborted
    /\ Failed # {} /\ Failed \subseteq Held
    /\ sem = Cardinality(Held)
    /\ Len(tasks) > Cardinality(Held)

\* two Configs equal in every field except BuildTime
SameButBuildTime(a, b) == Differences(a, b) \subseteq {"BuildTime"}

\* C6: OutputPath gives the same path for two Configs that are equal in every
\* field except BuildTime, and the same path when it is called again on the
\* same Config.
C6_RebuildOverwrites ==
    /\ \A i, j \in 1..Len(call.pa) : call.pa[i] = call.pa[j]
    /\ SameButBuildTime(call.a, call.b) =>
          \A i \in 1..Len(call.pa), j \in 1..Len(call.pb) : call.pa[i] = call.pb[j]

C6_Witness ==
    /\ SameButBuildTime(call.a, call.b)
    /\ call.a.BuildTime = Now /\ call.b.BuildTime = Later
    /\ Len(call.pa) = 2 /\ Len(call.pb) = 1

\* C7: a configuration that is admitted differs from every configuration admitted
\* before it in the run in a field other than BuildTime, and its output path from
\* the output path of each of them; a file a compiler writes is the output path of
\* its task, and no file is written where a file was written before in the run.
C7_DisjointPaths ==
    [][ /\ Len(tasks') > Len(tasks) =>
              LET c == tasks'[Len(tasks')]
              IN  \A i \in 1..Len(tasks) :
                     /\ ~SameButBuildTime(tasks[i], c)
                     /\ OutputPath(hostOS, tasks[i]) # OutputPath(hostOS, c)
        /\ (Len(tasks') = Len(tasks) /\ goroutines' # goroutines /\ ~aborted') =>
              \A f \in dist' \ dist :
                 /\ f.tool = "go" => f.path = OutputPath(hostOS, tasks[f.by])
                 /\ \A e \in dist : e.path # f.path ]_vars

C7_Witness ==
    /\ Len(tasks) >= 8
    /\ \E f, e \in dist : f.tool = "go" /\ e.tool = "go" /\ f.by # e.by
    /\ Cardinality(InProcess) >= 2

\* C8: no task is admitted for a configuration with TrimPath on a toolchain whose
\* minor version is below 13, and the loop passes a position with TrimPath whose
\* toolchain has minor version 13 or more and which the cross-link filter lets
\* through only by admitting a task for it.
C8_TrimPathFilter ==
    [][ /\ Len(tasks') > Len(tasks) =>
              LET c == tasks'[Len(tasks')]
              IN  c.TrimPath => MinorNumber(c.GoVersion) >= 13
        /\ (iter' # iter /\ TrimPaths[iter[3]]) =>
              LET exe  == RunVersions[iter[1]]
                  goos == Platforms[iter[2]]
                  link == LinkModes[iter[4]]
              IN  IF MinorNumber(exe) < 13
                  THEN tasks' = tasks
                  ELSE (link = "external" /\ goos # hostOS)
                       \/ /\ Len(tasks') = Len(tasks) + 1
                          /\ tasks'[Len(tasks')] = ConfigAt(iter, exe)
                          /\ tasks'[Len(tasks')].TrimPath ]_vars

C8_Witness ==
    /\ \E i \in 1..Len(tasks) :
          tasks[i].TrimPath /\ MinorNumber(tasks[i].GoVersion) = 13
    /\ \E i \in 1..Len(tasks) : MinorNumber(tasks[i].GoVersion) = 12
    /\ iter[1] = Len(RunVersions) /\ iter[3] = 2

\* C9: whatever the host platform, no task is admitted for a configuration with
\* LinkMode external whose GOOS is not the host platform; on a host that is none
\* of the targets no external configuration is admitted at all.
C9_CrossLinkFilter ==
    \A i \in 1..Len(tasks) :
       tasks[i].LinkMode = "external" =>
          /\ tasks[i].GOOS = hostOS
          /\ \E p \in 1..Len(Platforms) : Platforms[p] = hostOS

C9_Witness ==
    /\ hostOS = "windows"
    /\ \E i \in 1..Len(tasks) :
          tasks[i].LinkMode = "external" /\ tasks[i].GOOS = "windows"
    /\ mainPC \in {"drain", "done"}

\* the positions of the loops, and the configurations no filter excludes
Positions ==
    {<<v, g, t, l, s>> : v \in 1..Len(RunVersions), g \in 1..Len(Platforms),
                         t \in 1..Len(TrimPaths), l \in 1..Len(LinkModes),
                         s \in 1..Len(Strips)}

Excluded(p) ==
    \/ TrimPaths[p[3]] /\ MinorNumber(RunVersions[p[1]]) < 13
    \/ LinkModes[p[4]] = "external" /\ Platforms[p[2]] # hostOS

\* the part of the matrix with toolchains 1.12 and 1.13, targets linux and
\* windows, internal linking and no stripping: <<version, target, trimpath>>
ExampleSlice ==
    {<<tasks[i].GoVersion, tasks[i].GOOS, tasks[i].TrimPath>> :
        i \in {j \in 1..Len(tasks) :
                 /\ MinorNumber(tasks[j].GoVersion) \in {12, 13}
                 /\ tasks[j].GOOS \in {"linux", "windows"}
                 /\ tasks[j].LinkMode = "internal"
                 /\ ~tasks[j].StripDebug}}

\* C10: once the loops have ended, the configurations admitted are exactly those
\* of the product of the five ranges that neither filter excludes, each admitted
\* once, so that their number is the size of the product minus the number of the
\* excluded ones; on a linux host the part for 1.12 and 1.13, linux and windows,
\* internal linking and no stripping is the six combinations listed.
C10_Completeness ==
    mainPC \in {"drain", "done"} =>
       LET admitted == {tasks[i] : i \in 1..Len(tasks)}
           feasible == {p \in Positions : ~Excluded(p)}
       IN  /\ admitted = {ConfigAt(p, RunVersions[p[1]]) : p \in feasible}
           /\ Len(tasks) = Cardinality(admitted)
           /\ Len(tasks) = Len(RunVersions) * Len(Platforms) * Len(TrimPaths)
                             * Len(LinkModes) * Len(Strips)
                           - Cardinality({p \in Positions : Excluded(p)})
           /\ hostOS = "linux" =>
                 ExampleSlice = {<<"go1.12.17", "linux", FALSE>>,
                                 <<"go1.12.17", "windows", FALSE>>,
                                 <<"go1.13.8", "linux", FALSE>>,
                                 <<"go1.13.8", "linux", TRUE>>,
                                 <<"go1.13.8", "windows", FALSE>>,
                                 <<"go1.13.8", "windows", TRUE>>}

C10_Witness ==
    /\ mainPC = "done" /\ ~aborted
    /\ hostOS = "linux"
    /\ \E i, j \in 1..Len(tasks) :
          tasks[i].TrimPath /\ tasks[j].LinkMode = "external"

\* the toolchain at position k of the run does not report the version it is named
\* after, or the second component of what it reports is not an integer
Inconsistent(k) ==
    LET gv == GoVersions[toolchain[k]]
    IN  gv.panic \/ gv.version # RunVersions[k] \/ Minors[gv.version].err

CompilerFile(task) ==
    [path |-> OutputPath(hostOS, tasks[task]), tool |-> "go", by |-> task]

\* C12: upx is started for a task only by that task's goroutine, when its compiler
\* has exited with status 0 and written its file, only if "upx -V" succeeded when
\* main started, and at most once: no upx file of the task exists yet and the
\* task has one goroutine; where "upx -V" failed no goroutine ever runs upx and no
\* upx file is written.
C12_CompressionOrdering ==
    [][ /\ \A g \in goroutines' \ goroutines :
              g.pc = "compressing" =>
                 /\ hasUPX
                 /\ \E h \in goroutines : h.task = g.task /\ h.pc = "compiling"
                 /\ CompilerFile(g.task) \in dist'
                 /\ \A f \in dist' : f.by = g.task => f.tool = "go"
        /\ \A g, h \in goroutines' : g.task = h.task => g = h
        /\ ~hasUPX =>
              /\ \A g \in goroutines' : g.pc \in {"compiling", "buildFailed"}
              /\ \A f \in dist' \ dist : f.tool = "go" ]_vars

C12_Witness ==
    /\ hasUPX
    /\ \E g \in goroutines : g.pc = "compressing" /\ CompilerFile(g.task) \in dist
    /\ \E f \in dist : f.tool = "upx"
    /\ \E g \in goroutines : g.pc = "compiling"

\* the build output paths of all Configs of the run, on each host
RunPaths == [h \in Hosts |-> {OutputPath(h, c) : c \in PathConfigs}]

\* p with "-upx" appended, or inserted before a trailing ".exe"
WithUpxMark(p) ==
    IF Len(p) >= 4 /\ SubSeq(p, Len(p) - 3, Len(p)) = ".exe"
    THEN SubSeq(p, 1, Len(p) - 4) \o "-upx.exe"
    ELSE p \o "-upx"

\* C13: the path upx is given to write, and writes, for a task whose build output
\* path is p is p with "-upx" appended, or inserted before a trailing ".exe"; it
\* is neither p nor the build output path of any configuration of the run.
C13_CompressedName ==
    [][ /\ \A g \in goroutines' \ goroutines :
              g.pc = "compressing" =>
                 LET p == OutputPath(hostOS, tasks[g.task])
                 IN  /\ p \in RunPaths[hostOS]
                     /\ g.out = WithUpxMark(p)
                     /\ g.out # p
                     /\ g.out \notin RunPaths[hostOS]
        /\ (hasUPX /\ Cardinality(goroutines') < Cardinality(goroutines)) =>
              \A f \in dist' \ dist :
                 /\ f.tool = "upx"
                 /\ f.path = WithUpxMark(OutputPath(hostOS, tasks[f.by]))
                 /\ f.path \notin RunPaths[hostOS] ]_vars

C13_Witness ==
    /\ \E g \in goroutines :
          /\ g.pc = "compressing"
          /\ SubSeq(g.out, Len(g.out) - 7, Len(g.out)) = "-upx.exe"
    /\ \E f \in dist :
          /\ f.tool = "upx"
          /\ SubSeq(f.path, Len(f.path) - 3, Len(f.path)) = "-upx"
    /\ \E f \in dist :
          /\ f.tool = "upx"
          /\ SubSeq(f.path, Len(f.path) - 7, Len(f.path)) = "-upx.exe"

\* every configuration the loops enumerate and no filter excludes has been
\* compiled, and compressed if hasUPX
AllBuilt ==
    \A p \in Positions :
       ~Excluded(p) =>
          LET exe == OutputPath(hostOS, ConfigAt(p, RunVersions[p[1]]))
          IN  /\ \E f \in dist : f.path = exe /\ f.tool = "go"
              /\ hasUPX => \E f \in dist : f.path = UpxPath(exe) /\ f.tool = "upx"

\* C14: in a run in which every external process exits, the run ends: main
\* returns or the process is aborted, never both; main returns only when every
\* enumerated configuration has been built, and compressed if hasUPX, and no
\* goroutine is left.
C14_NoPartialSuccess ==
    /\ <>(aborted \/ mainPC = "done")
    /\ [](mainPC = "done" => ~aborted /\ AllBuilt /\ goroutines = {})
    /\ [](aborted => mainPC # "done")

C14_Witness ==
    /\ mainPC = "done" /\ ~aborted
    /\ hasUPX /\ ncpu >= 2
    /\ AllBuilt
    /\ Cardinality(dist) = 2 * Len(tasks) /\ Len(tasks) >= 8

\* the file name of the format: Name-GoVersion-GOOS-<3 characters of LinkMode>lnk,
\* "-strip", "-trimpath", "-" and the hash of the Config at the zero time, ".exe"
NameFormat(c) ==
    c.Name \o "-" \o c.GoVersion \o "-" \o c.GOOS \o "-" \o SubSeq(c.LinkMode, 1, 3) \o "lnk"
    \o (IF c.StripDebug THEN "-strip" ELSE "")
    \o (IF c.TrimPath THEN "-trimpath" ELSE "")
    \o "-" \o HexSum(Fnv32a(Marshal([c EXCEPT !.BuildTime = ZeroTime])))
    \o (IF c.GOOS = "windows" THEN ".exe" ELSE "")

\* NameFormat tabulated over the Configs of the run (evaluated once)
NameFormats == [c \in PathConfigs |-> NameFormat(c)]

\* path is the file called name in the output directory
UnderOut(path, name) ==
    /\ Len(path) = Len(out) + 1 + Len(name)
    /\ SubSeq(path, 1, Len(out)) = out
    /\ SubSeq(path, Len(out) + 1, Len(out) + 1) \in {"/", "\\"}
    /\ SubSeq(path, Len(out) + 2, Len(path)) = name

\* C15: for every Config, OutputPath gives the file of the output directory whose
\* name is Name-GoVersion-GOOS-<first 3 characters of LinkMode>lnk, then "-strip"
\* exactly when StripDebug is set, then "-trimpath" exactly when TrimPath is set,
\* then "-" and the hash of the Config with BuildTime zeroed in hexadecimal digits,
\* then ".exe" exactly when GOOS is windows.
C15_FileNameFormat ==
    /\ \A i \in 1..Len(call.pa) : UnderOut(call.pa[i], NameFormats[call.a])
    /\ \A i \in 1..Len(call.pb) : UnderOut(call.pb[i], NameFormats[call.b])

C15_Witness ==
    /\ call.a.StripDebug /\ call.a.TrimPath /\ call.a.GOOS = "windows"
    /\ call.a.LinkMode = "external"
    /\ ~call.b.StripDebug /\ call.b.TrimPath /\ call.b.GOOS = "windows"
    /\ Len(call.pa) >= 1 /\ Len(call.pb) = 1
    /\ call.pa[1] # call.pb[1]

\* the rank of a position in the order of the loops: versions outermost, then
\* platform, trimpath, linkmode, and strip innermost
Rank(p) ==
    ((((p[1] - 1) * Len(Platforms) + (p[2] - 1)) * Len(TrimPaths) + (p[3] - 1))
        * Len(LinkModes) + (p[4] - 1)) * Len(Strips) + p[5]

\* the positions no filter excludes on host h, in the order of the loops
Enumeration ==
    [h \in Hosts |->
        LET feasible == {p \in Positions :
                           /\ ~(TrimPaths[p[3]] /\ Minors[RunVersions[p[1]]].val < 13)
                           /\ ~(LinkModes[p[4]] = "external" /\ Platforms[p[2]] # h)}
        IN  [k \in 1..Cardinality(feasible) |->
                CHOOSE p \in feasible :
                   Cardinality({q \in feasible : Rank(q) <= Rank(p)}) = k]]

\* the Config of a position, with the fields taken from the ranges in loop order
EnumConfig(p) ==
    [Name |-> ArtifactName, GoVersion |-> RunVersions[p[1]], GOOS |-> Platforms[p[2]],
     LinkMode |-> LinkModes[p[4]], StripDebug |-> Strips[p[5]], TrimPath |-> TrimPaths[p[3]],
     BuildTime |-> buildTime]

\* C16, as stated: the sequence a run admits is determined by the axis lists, the
\* host, buildTime and the toolchains' reports alone, however the tasks interleave:
\* every run on consistent toolchains that has ended, by returning or by
\* aborting, has admitted the whole enumeration.
C16_SameSequenceInEveryRun ==
    (mainPC # "install" /\ (aborted \/ mainPC = "done")
       /\ \A k \in 1..Len(RunVersions) : ~Inconsistent(k)) =>
       Len(tasks) = Len(Enumeration[hostOS])

\* C16, amended: the configurations a run admits are, in the order of admission,
\* an initial part of the one enumeration that the axis lists, the host, buildTime
\* and the toolchains' reports determine (versions outermost, then platform,
\* trimpath, linkmode, strip innermost), however the tasks interleave: every
\* admission appends the next configuration of that enumeration and nothing else
\* changes the sequence; it is the whole enumeration when the loops have ended.
C16_DeterministicEnumeration ==
    [][ /\ Len(tasks') > Len(tasks) =>
              /\ Len(tasks) < Len(Enumeration[hostOS])
              /\ tasks' = Append(tasks, EnumConfig(Enumeration[hostOS][Len(tasks) + 1]))
        /\ Len(tasks') <= Len(tasks) => tasks' = tasks
        /\ mainPC' \in {"drain", "done"} => Len(tasks') = Len(Enumeration[hostOS]) ]_vars

C16_Witness ==
    /\ aborted /\ mainPC = "loop"
    /\ \A k \in 1..Len(RunVersions) : ~Inconsistent(k)
    /\ ncpu >= 2 /\ Len(tasks) >= 2 /\ Len(tasks) < Len(Enumeration[hostOS])
    /\ \E g \in goroutines : g.task = 1 /\ g.pc = "buildFailed"
    /\ tasks[Len(tasks)] = EnumConfig(Enumeration[hostOS][Len(tasks)])

\* C17: the calls of OutputPath leave the variable cfg of a task as it was
\* enumerated when the task was admitted, with its BuildTime, whatever the loops
\* and the other goroutines have done since; the compiler a goroutine runs is the
\* command Cmd builds from that Config, which embeds its JSON in the linker flags,
\* and the upx it runs is given the output path of that Config.
C17_ConfigIsReadOnly ==
    [][ \A g \in goroutines' :
           LET c == EnumConfig(Enumeration[hostOS][g.task])
           IN  /\ tasks'[g.task] = c
               /\ c.BuildTime = buildTime /\ c.BuildTime # ZeroTime
               /\ g.pc \in {"compiling", "buildFailed"} =>
                     /\ g.cmd = Cmds[hostOS][c]
                     /\ g.cmd.args[5] = LdFlags(c)
               /\ g.pc \in {"compressing", "upxFailed"} =>
                     g.cmd = UpxCmd(OutputPath(hostOS, c)) ]_vars

C17_Witness ==
    /\ Len(tasks) >= 4 /\ tasks[1].BuildTime = Now
    /\ \E g \in goroutines : g.task = 1 /\ g.pc = "compressing"
    /\ \E g \in goroutines : g.task = Len(tasks) /\ g.pc = "compiling"
    /\ \E f \in dist : f.by = 2 /\ f.tool = "upx"

\* among the arguments, value is the one that follows flag
Follows(args, flag, value) ==
    \E i \in 1..(Len(args) - 1) : args[i] = flag /\ args[i + 1] = value

\* C18: the command a goroutine runs for its Config c, built by Cmd, runs the
\* toolchain c.GoVersion, has "-o" followed by exactly c.OutputPath(), has the
\* argument "-trimpath" if and only if c.TrimPath, has linker flags that carry
\* -linkmode=c.LinkMode and end with " -s -w" if and only if c.StripDebug, and
\* adds GOOS=c.GOOS to the environment.
C18_BuildCommand ==
    [][ \A g \in goroutines' \ goroutines :
           g.pc = "compiling" =>
              LET c    == tasks'[g.task]
                  args == g.cmd.args
                  ld   == args[5]
                  mode == "' -linkmode=" \o c.LinkMode
              IN  /\ g.cmd.path = c.GoVersion
                  /\ args[1] = "build" /\ args[Len(args)] = "main.go"
                  /\ Follows(args, "-o", OutputPath(hostOS, c))
                  /\ \A i \in 1..(Len(args) - 1) :
                        args[i] = "-o" => args[i + 1] = OutputPath(hostOS, c)
                  /\ (\E i \in 1..Len(args) : args[i] = "-trimpath") <=> c.TrimPath
                  /\ args[4] = "-ldflags"
                  /\ HasSuffix(ld, " -s -w") <=> c.StripDebug
                  /\ HasSuffix(TrimSuffix(ld, " -s -w"), mode)
                  /\ g.cmd.env = <<"GOOS=" \o c.GOOS>> ]_vars

C18_Witness ==
    /\ \E g \in goroutines :
          /\ g.pc = "compiling" /\ Len(g.cmd.args) = 7
          /\ tasks[g.task].StripDebug /\ tasks[g.task].LinkMode = "external"
    /\ \E g \in goroutines :
          /\ g.pc = "compiling" /\ Len(g.cmd.args) = 6
          /\ ~tasks[g.task].StripDebug /\ tasks[g.task].GOOS # hostOS

\* every task admitted but the one whose compiler never exits has ended, and its
\* executable is written, and compressed if hasUPX
OthersComplete ==
    /\ Held = {hung}
    /\ \A k \in (1..Len(tasks)) \ {hung} :
          LET exe == OutputPath(hostOS, tasks[k])
          IN  /\ \E f \in dist : f.by = k /\ f.tool = "go" /\ f.path = exe
              /\ hasUPX => \E f \in dist : f.by = k /\ f.tool = "upx" /\ f.path = UpxPath(exe)

\* C19: in a run in which the compiler of one admitted task never exits while
\* every other process exits, that task holds its slot from its admission on (sem
\* never goes below 1, at most ncpu - 1 other tasks are in flight) and main never
\* returns; with a capacity above 1 the run goes on in the other slots: unless it
\* is aborted, every other configuration of the enumeration is admitted and
\* completes, and main is left blocked on the last send of the final loop.  With
\* a capacity of 1 nothing is admitted after that task.
C19_NoTimeoutOnBuilds ==
    /\ [](Len(tasks) >= hung =>
             /\ \E g \in goroutines : g.task = hung /\ g.pc = "compiling"
             /\ sem >= 1
             /\ Cardinality(Held \ {hung}) <= ncpu - 1
             /\ mainPC # "done")
    /\ [](ncpu = 1 /\ Len(tasks) >= hung => Len(tasks) = hung /\ mainPC = "loop")
    /\ <>(\/ ncpu = 1
          \/ aborted
          \/ /\ Len(tasks) = Len(Enumeration[hostOS])
             /\ OthersComplete
             /\ mainPC = "drain" /\ drain = 1 /\ sem = ncpu)

C19_Witness ==
    /\ ~aborted /\ ncpu >= 2 /\ hasUPX /\ hung >= 2
    /\ Len(tasks) = Len(Enumeration[hostOS]) /\ Len(tasks) >= 8
    /\ OthersComplete
    /\ Cardinality(dist) = 2 * (Len(tasks) - 1)
    /\ mainPC = "drain" /\ drain = 1 /\ sem = ncpu

=============================================================================
